---- MODULE Spec2Model ----
(***************************************************************************)
(* rocket-slog-fairing: the SlogFairing lifecycle adapter and the          *)
(* SyncLogger handle of src/src/lib.rs, driven by the Rocket pipeline the  *)
(* way examples/app.rs builds it (custom(config).mount(..).attach(fairing) *)
(* .launch()), with requests handled concurrently after launch.            *)
(*                                                                         *)
(* A logger is named by a number (the allocation an Arc<Logger> points     *)
(* at); a SyncLogger value is that number.  Every logger has its own sink, *)
(* a sequence of log entries.  An entry is the structured event the code   *)
(* emits (msg, kv: the ordered key/value pairs, all values rendered to     *)
(* strings as slog's % and ? formatters do) plus three fields that are not *)
(* in the program and only let the properties name an entry's origin:      *)
(* hook (which callback emitted it), n (the on_attach call number, or the  *)
(* request number) and seq (the number of the emission, counted over all   *)
(* handles).                                                               *)
(***************************************************************************)
EXTENDS Integers, Sequences, FiniteSets, TLC

\* Bounds of the model.
MaxRequests == 2
MaxAttach == 2

\* The logger the application builds and hands to SlogFairing::new.
RootLogger == 1

\* request.route() of a request no route was matched to (None); a matched
\* route r is << r >>.
NoRoute == << >>

--------------------------------------------------------------------------
\* Rendering of values, as the slog formatters (% Display, ? Debug) render them.

\* Debug of a String: the text in double quotes.
DebugStr(s) == "\"" \o s \o "\""

\* Display of rocket::http::Method (the enum variants are Get, Post).
MethodDisplay(m) == IF m = "Get" THEN "GET" ELSE "POST"

\* Debug of rocket::http::Method: the variant's name.
MethodDebug(m) == m

\* Debug of a toml integer value of config.extras.
DebugValue(v) == "Integer(" \o ToString(v) \o ")"

Ev(msg, kv) == [msg |-> msg, kv |-> kv]

KV(k, v) == <<k, v>>

--------------------------------------------------------------------------
\* SyncLogger
\* SlogFairing::new: wraps the logger in an Arc; the handle points at it.
new(root_logger) == root_logger

clone_deep(self) == self + 1

\* #[derive(Clone)] on SyncLogger(Arc<Logger>): another reference to the same logger.
clone(self) == self

\* Deref for SyncLogger: the logger the handle points at.
deref(self) == self

\* SyncLogger::get
get(self) == deref(self)

from_request_default(managed) == [outcome |-> "Success", handle |-> clone(RootLogger)]

\* FromRequest for SyncLogger: the State<SyncLogger> guard fails when no
\* SyncLogger is managed (the ? forwards the failure), else a clone is returned.
from_request(managed) ==
    IF managed = << >>
    THEN [outcome |-> "Failure", handle |-> 0]
    ELSE [outcome |-> "Success", handle |-> clone(managed[1])]

--------------------------------------------------------------------------
\* SlogFairing

\* Fairing::info: the lifecycle kinds the fairing registers for.
info == [name |-> "Slog Fairing", kind |-> {"Attach", "Launch", "Request", "Response"}]

LimitEvent_always(limits, name) ==
    << Ev("config", << KV("key", name \o " limit"),
                       KV("value", IF name \in DOMAIN limits THEN ToString(limits[name]) ELSE "0") >>) >>

\* if let Some(x) = config.limits.get(name): one config event when the limit is set.
LimitEvent(limits, name) ==
    IF name \in DOMAIN limits
    THEN << Ev("config", << KV("key", name \o " limit"), KV("value", ToString(limits[name])) >>) >>
    ELSE << >>

\* for (key, val) in &config.extras, in the order the map iterates (order).
RECURSIVE ExtraEvents(_, _)
ExtraEvents(extras, order) ==
    IF order = << >>
    THEN << >>
    ELSE << Ev("config", << KV("key", Head(order)), KV("value", DebugValue(extras[Head(order)])) >>) >>
         \o ExtraEvents(extras, Tail(order))

\* The block of on_attach that dumps the configuration.
ConfigEvents(config, order) ==
    << Ev("config", << KV("key", "environment"), KV("value", config.environment) >>),
       Ev("config", << KV("key", "address"), KV("value", config.address) >>),
       Ev("config", << KV("key", "port"), KV("value", ToString(config.port)) >>),
       Ev("config", << KV("key", "workers"), KV("value", ToString(config.workers)) >>),
       Ev("config", << KV("key", "log_level"), KV("value", config.log_level) >>) >>
    \o LimitEvent(config.limits, "forms")
    \o LimitEvent(config.limits, "json")
    \o LimitEvent(config.limits, "msgpack")
    \o ExtraEvents(config.extras, order)

\* rocket.manage(state): adds the value to the managed state; Rocket panics
\* ("Aborting due to duplicate managed state.") when a value of that type is
\* already managed, and the state is then left as it was.
manage(managed, value) ==
    IF managed = << >>
    THEN [panicked |-> FALSE, managed |-> << value >>]
    ELSE [panicked |-> TRUE, managed |-> managed]

on_attach_unpublished(self, config, order, managed) ==
    [events |-> ConfigEvents(config, order), result |-> "Ok", managed |-> managed]

\* Fairing::on_attach: the events it emits, what it returns ("Ok" for
\* Ok(rocket); "panic" when it does not return) and the managed state after it.
on_attach(self, config, order, managed) ==
    LET m == manage(managed, clone(self))
    IN  [events |-> ConfigEvents(config, order),
         result |-> IF m.panicked THEN "panic" ELSE "Ok",
         managed |-> m.managed]

RouteEvent_le(route) ==
    IF route.rank <= 0
    THEN Ev("route", << KV("base", route.base), KV("path", route.uri),
                        KV("method", MethodDisplay(route.method)) >>)
    ELSE Ev("route", << KV("base", route.base), KV("path", route.uri),
                        KV("rank", ToString(route.rank)) >>)

\* The body of on_launch's loop over rocket.routes().
RouteEvent(route) ==
    IF route.rank < 0
    THEN Ev("route", << KV("base", route.base), KV("path", route.uri),
                        KV("method", MethodDisplay(route.method)) >>)
    ELSE Ev("route", << KV("base", route.base), KV("path", route.uri),
                        KV("rank", ToString(route.rank)) >>)

ListenAddr_http(config) ==
    "http" \o "://" \o config.address \o ":" \o ToString(config.port)

\* let scheme = ..; let addr = format!("{}://{}:{}", scheme, address, port)
ListenAddr(config) ==
    LET scheme == IF config.tls THEN "https" ELSE "http"
    IN  scheme \o "://" \o config.address \o ":" \o ToString(config.port)

on_launch_dump(self, routes, config) ==
    [i \in 1..Len(routes) |-> RouteEvent(routes[i])]
    \o << Ev("listening", << KV("address", ListenAddr(config)) >>) >>
    \o ConfigEvents(config, << >>)

\* Fairing::on_launch: the events it emits.
on_launch(self, routes, config) ==
    [i \in 1..Len(routes) |-> RouteEvent(routes[i])]
    \o << Ev("listening", << KV("address", ListenAddr(config)) >>) >>

on_request_rewrite(self, request) ==
    [events |-> << Ev("request", << KV("method", MethodDebug(request.method)),
                                    KV("uri", DebugStr(request.uri)) >>) >>,
     request |-> [request EXCEPT !.uri = "/"]]

\* Fairing::on_request: the events it emits and the request after it
\* (it is handed &mut Request).
on_request(self, request) ==
    [events |-> << Ev("request", << KV("method", MethodDebug(request.method)),
                                    KV("uri", DebugStr(request.uri)) >>) >>,
     request |-> request]

\* Display of rocket::Route: method and uri, and the rank when above 1.
RouteDisplay(route) ==
    MethodDisplay(route.method) \o " " \o route.uri
    \o (IF route.rank > 1 THEN " [" \o ToString(route.rank) \o "]" ELSE "")

StatusString_code(status) == ToString(status.code)

\* format!("{} {}", status.code, status.reason)
StatusString(status) == ToString(status.code) \o " " \o status.reason

on_response_matched(self, route, response) ==
    [events |-> IF route # NoRoute
                THEN << Ev("response", << KV("route", RouteDisplay(route[1])),
                                          KV("status", StatusString(response.status)) >>) >>
                ELSE << >>,
     response |-> response]

\* Fairing::on_response: the events it emits and the response after it (it is
\* handed &mut Response).  route is request.route(): a route, or NoRoute.
on_response(self, route, response) ==
    [events |-> IF route # NoRoute
                THEN << Ev("response", << KV("route", RouteDisplay(route[1])),
                                          KV("status", StatusString(response.status)) >>) >>
                ELSE << Ev("response", << KV("status", StatusString(response.status)) >>) >>,
     response |-> response]

--------------------------------------------------------------------------
\* The application and the pipeline around the fairing.

EmptyMap == [x \in {} |-> 0]

Configs ==
    { [environment |-> "Development", address |-> "0.0.0.0", port |-> 8000,
       workers |-> 2, log_level |-> "Normal", tls |-> FALSE,
       limits |-> ("forms" :> 32768), extras |-> EmptyMap],
      [environment |-> "Production", address |-> "example.com", port |-> 443,
       workers |-> 4, log_level |-> "Critical", tls |-> TRUE,
       limits |-> ("forms" :> 32768) @@ ("json" :> 1048576),
       extras |-> ("k1" :> 1) @@ ("k2" :> 2)],
      [environment |-> "Staging", address |-> "localhost", port |-> 8080,
       workers |-> 1, log_level |-> "Off", tls |-> FALSE,
       limits |-> ("forms" :> 1024) @@ ("msgpack" :> 2048) @@ ("files" :> 4096),
       extras |-> ("timeout" :> 5)] }

IndexRoute == [base |-> "/", uri |-> "/", method |-> "Get", rank |-> -1]

RouteTables ==
    { << >>,
      << IndexRoute >>,
      << IndexRoute,
         [base |-> "/api", uri |-> "/api/items", method |-> "Post", rank |-> 3],
         [base |-> "/api", uri |-> "/api/items", method |-> "Get", rank |-> 0] >> }

RequestKinds ==
    { [method |-> "Get", uri |-> "/"],
      [method |-> "Get", uri |-> "/missing"],
      [method |-> "Post", uri |-> "/api/items"] }

Requests == 1..MaxRequests

Perms(S) ==
    { p \in [1..Cardinality(S) -> S] : \A i, j \in 1..Cardinality(S) : p[i] = p[j] => i = j }

NoResponse == [status |-> [code |-> 0, reason |-> ""]]

NoGuard == [outcome |-> "none", handle |-> 0]

VARIABLES
    config,     \* rocket.config(), fixed when the application is built
    routes,     \* rocket.routes(), the mounted routes
    fairing,    \* SlogFairing.0, the fairing's own SyncLogger
    managed,    \* the SyncLogger in Rocket's managed state: << >> or << handle >>
    phase,      \* "build", "launched" or "aborted"
    attached,   \* one record per on_attach call: was a SyncLogger managed before it, its result
    sink,       \* logger |-> the entries written to it, in order
    emitted,    \* the number of events emitted so far, through any handle
    reqs,       \* request number |-> the request
    pc,         \* request number |-> "new", "received", "routed" or "done"
    matched,    \* request number |-> request.route()
    resp,       \* request number |-> the response
    guard       \* request number |-> what the handler's SyncLogger guard returned

vars == << config, routes, fairing, managed, phase, attached, sink, emitted,
           reqs, pc, matched, resp, guard >>

\* The fairing is in Rocket's list of fairings: an on_attach call returned Ok.
Registered == \E k \in 1..Len(attached) : attached[k].result = "Ok"

\* slog_info!(logger, msg; kv..) for each event in turn: the entry goes to the
\* sink of the logger the handle derefs to.
Emit(snk, cnt, handle, events, hook, n) ==
    LET l == deref(handle)
        old == IF l \in DOMAIN snk THEN snk[l] ELSE << >>
        new_entries == [i \in 1..Len(events) |->
                          [msg |-> events[i].msg, kv |-> events[i].kv,
                           hook |-> hook, n |-> n, seq |-> cnt + i]]
    IN  IF events = << >>
        THEN snk
        ELSE (l :> (old \o new_entries)) @@ snk

\* Rocket's router: the first mounted route with the request's method and uri.
Match(rts, request) ==
    LET hits == { i \in 1..Len(rts) :
                    rts[i].method = request.method /\ rts[i].uri = request.uri }
    IN  IF hits = {} THEN NoRoute
        ELSE << rts[CHOOSE i \in hits : \A j \in hits : i <= j] >>

Init ==
    /\ config \in Configs
    /\ routes \in RouteTables
    /\ fairing = new(RootLogger)
    /\ managed = << >>
    /\ phase = "build"
    /\ attached = << >>
    /\ sink = (RootLogger :> << >>)
    /\ emitted = 0
    /\ reqs \in [Requests -> RequestKinds]
    /\ pc = [r \in Requests |-> "new"]
    /\ matched = [r \in Requests |-> NoRoute]
    /\ resp = [r \in Requests |-> NoResponse]
    /\ guard = [r \in Requests |-> NoGuard]

\* rocket.attach(fairing): Rocket calls on_attach; the fairing is kept when it
\* returns Ok; a panic unwinds out of the application's builder chain.
Attach ==
    /\ phase = "build"
    /\ Len(attached) < MaxAttach
    /\ "Attach" \in info.kind
    /\ \E order \in Perms(DOMAIN config.extras) :
         LET a == on_attach(fairing, config, order, managed)
         IN  /\ sink' = Emit(sink, emitted, fairing, a.events, "on_attach", Len(attached) + 1)
             /\ emitted' = emitted + Len(a.events)
             /\ managed' = a.managed
             /\ attached' = Append(attached, [pre |-> managed # << >>, result |-> a.result])
             /\ phase' = IF a.result = "Ok" THEN "build" ELSE "aborted"
    /\ UNCHANGED << config, routes, fairing, reqs, pc, matched, resp, guard >>

\* rocket.launch(): the launch fairings run, then the server accepts requests.
Launch ==
    /\ phase = "build"
    /\ phase' = "launched"
    /\ LET events == IF Registered /\ "Launch" \in info.kind
                     THEN on_launch(fairing, routes, config) ELSE << >>
       IN  /\ sink' = Emit(sink, emitted, fairing, events, "on_launch", 1)
           /\ emitted' = emitted + Len(events)
    /\ UNCHANGED << config, routes, fairing, managed, attached, reqs, pc, matched, resp, guard >>

\* A request arrives: the request fairings run before routing.
Receive(r) ==
    /\ phase = "launched"
    /\ pc[r] = "new"
    /\ r > 1 => pc[r - 1] # "new"
    /\ pc' = [pc EXCEPT ![r] = "received"]
    /\ IF Registered /\ "Request" \in info.kind
       THEN LET q == on_request(fairing, reqs[r])
            IN  /\ sink' = Emit(sink, emitted, fairing, q.events, "on_request", r)
                /\ emitted' = emitted + Len(q.events)
                /\ reqs' = [reqs EXCEPT ![r] = q.request]
       ELSE UNCHANGED << sink, emitted, reqs >>
    /\ UNCHANGED << config, routes, fairing, managed, phase, attached, matched, resp, guard >>

\* Routing and the handler (examples/app.rs, index): the SyncLogger guard is
\* evaluated, and on success the handler logs through the handle it was given
\* and answers 200; a failed guard answers 500, no matching route 404.
Dispatch(r) ==
    /\ pc[r] = "received"
    /\ pc' = [pc EXCEPT ![r] = "routed"]
    /\ LET route == Match(routes, reqs[r])
           g == from_request(managed)
       IN  /\ matched' = [matched EXCEPT ![r] = route]
           /\ IF route = NoRoute
              THEN /\ resp' = [resp EXCEPT ![r] = [status |-> [code |-> 404, reason |-> "Not Found"]]]
                   /\ UNCHANGED << guard, sink, emitted >>
              ELSE /\ guard' = [guard EXCEPT ![r] = g]
                   /\ IF g.outcome = "Success"
                      THEN /\ sink' = Emit(sink, emitted, g.handle,
                                           << Ev("some log message", << >>) >>, "handler", r)
                           /\ emitted' = emitted + 1
                           /\ resp' = [resp EXCEPT ![r] = [status |-> [code |-> 200, reason |-> "OK"]]]
                      ELSE /\ resp' = [resp EXCEPT ![r] =
                                         [status |-> [code |-> 500, reason |-> "Internal Server Error"]]]
                           /\ UNCHANGED << sink, emitted >>
    /\ UNCHANGED << config, routes, fairing, managed, phase, attached, reqs >>

\* The response is ready: the response fairings run, then it is sent.
Respond(r) ==
    /\ pc[r] = "routed"
    /\ pc' = [pc EXCEPT ![r] = "done"]
    /\ IF Registered /\ "Response" \in info.kind
       THEN LET p == on_response(fairing, matched[r], resp[r])
            IN  /\ sink' = Emit(sink, emitted, fairing, p.events, "on_response", r)
                /\ emitted' = emitted + Len(p.events)
                /\ resp' = [resp EXCEPT ![r] = p.response]
       ELSE UNCHANGED << sink, emitted, resp >>
    /\ UNCHANGED << config, routes, fairing, managed, phase, attached, reqs, matched, guard >>

Next ==
    \/ Attach
    \/ Launch
    \/ \E r \in Requests : Receive(r)
    \/ \E r \in Requests : Dispatch(r)
    \/ \E r \in Requests : Respond(r)

Spec == Init /\ [][Next]_vars

--------------------------------------------------------------------------
\* Reading the log.

\* The stream of the application's logger.
Log == sink[RootLogger]

Names(e) == [i \in 1..Len(e.kv) |-> e.kv[i][1]]

HasField(e, k) == \E i \in 1..Len(e.kv) : e.kv[i][1] = k

Field(e, k) == e.kv[CHOOSE i \in 1..Len(e.kv) : e.kv[i][1] = k][2]

\* The positions of the log that hold an entry with this message.
At(msg) == { i \in 1..Len(Log) : Log[i].msg = msg }

\* The positions of the entries one call of a hook emitted.
Of(hook, n) == { i \in 1..Len(Log) : Log[i].hook = hook /\ Log[i].n = n }

--------------------------------------------------------------------------
\* C1: a handler's lookup of the SyncLogger succeeds, with a clone of the
\* published handle, exactly when on_attach has published one; a lookup with
\* nothing published fails and yields no handle.
C1_LookupIffPublished ==
    \A r \in Requests :
        guard[r].outcome # "none" =>
            /\ guard[r].outcome = "Success" <=> Registered
            /\ Registered => managed # << >> /\ deref(guard[r].handle) = deref(managed[1])
            /\ ~Registered => guard[r].outcome = "Failure" /\ guard[r].handle = 0

C1_Witness == \E r \in Requests : guard[r].outcome = "Success" /\ Registered

\* The other branch of C1: a lookup in an application that never attached the fairing.
C1_LookupMiss == \E r \in Requests : guard[r].outcome = "Failure"

\* C2: on_launch emits one route event per mounted route, in order, with base,
\* path and exactly one of method (rank below 0) and rank (rank 0 or above).
C2_RouteEvents ==
    LET idx == At("route")
        pos(i) == CHOOSE p \in idx : Cardinality({ q \in idx : q <= p }) = i
    IN  /\ ~(phase = "launched" /\ Registered) => idx = {}
        /\ phase = "launched" /\ Registered =>
              /\ Cardinality(idx) = Len(routes)
              /\ \A i \in 1..Len(routes) :
                    LET e == Log[pos(i)]
                    IN  /\ Field(e, "base") = routes[i].base
                        /\ Field(e, "path") = routes[i].uri
                        /\ Len(e.kv) = 3
                        /\ HasField(e, "method") # HasField(e, "rank")
                        /\ HasField(e, "method") <=> routes[i].rank < 0
                        /\ routes[i].rank = -1 /\ routes[i].method = "Get"
                              => Field(e, "method") = "GET"
                        /\ routes[i].rank = 3 => Field(e, "rank") = "3"

C2_Witness ==
    /\ phase = "launched" /\ Registered
    /\ \E i, j, k \in 1..Len(routes) :
          routes[i].rank < 0 /\ routes[j].rank = 0 /\ routes[k].rank > 0

\* C3: each on_attach call emits exactly one config event for each of
\* environment, address, port, workers and log_level, one for each of the
\* forms, json and msgpack limits that is set, one per extra setting, and
\* nothing else.
C3_ConfigEvents ==
    LET NamedLimits == {"forms", "json", "msgpack"}
        count(k, key) == Cardinality({ i \in Of("on_attach", k) : Field(Log[i], "key") = key })
    IN  /\ \A i \in At("config") : Log[i].hook = "on_attach" /\ Names(Log[i]) = << "key", "value" >>
        /\ \A k \in 1..Len(attached) :
              /\ \A i \in Of("on_attach", k) : Log[i].msg = "config"
              /\ \A key \in {"environment", "address", "port", "workers", "log_level"} :
                    count(k, key) = 1
              /\ \A l \in NamedLimits :
                    count(k, l \o " limit") = IF l \in DOMAIN config.limits THEN 1 ELSE 0
              /\ \A x \in DOMAIN config.extras : count(k, x) = 1
              /\ Cardinality(Of("on_attach", k))
                    = 5 + Cardinality(NamedLimits \cap DOMAIN config.limits)
                        + Cardinality(DOMAIN config.extras)

C3_Witness ==
    /\ Len(attached) >= 1
    /\ "msgpack" \in DOMAIN config.limits
    /\ "json" \notin DOMAIN config.limits
    /\ DOMAIN config.extras # {}

\* C4: with the fairing attached, a completed request has exactly one request
\* event and exactly one response event in the log, the request event first;
\* no request ever has more than one of either.
C4_Pairing ==
    LET rq(r) == { i \in Of("on_request", r) : Log[i].msg = "request" }
        rs(r) == { i \in Of("on_response", r) : Log[i].msg = "response" }
    IN  /\ \A i \in At("request") : Log[i].hook = "on_request"
        /\ \A i \in At("response") : Log[i].hook = "on_response"
        /\ \A r \in Requests :
              /\ Cardinality(rq(r)) <= 1
              /\ Cardinality(rs(r)) <= 1
              /\ \A i \in rs(r) : \E j \in rq(r) : j < i
              /\ Registered /\ pc[r] = "done" =>
                    Cardinality(rq(r)) = 1 /\ Cardinality(rs(r)) = 1

\* Two requests in flight at once, both completed: the second was received
\* before the first was answered.
C4_Witness ==
    /\ Registered
    /\ \A r \in Requests : pc[r] = "done"
    /\ \E i \in Of("on_request", 2) : \E j \in Of("on_response", 1) : i < j
    /\ \E r \in Requests : matched[r] = NoRoute

\* C5: every response event has a status field "<code> <reason>", and a route
\* field (the route's display form, first) exactly when the request matched a
\* route; an unmatched request's event has the status field alone.
C5_ResponseFields ==
    \A i \in At("response") :
        LET e == Log[i]
            r == e.n
            st == resp[r].status
        IN  /\ Names(e) = IF matched[r] # NoRoute THEN << "route", "status" >> ELSE << "status" >>
            /\ st.code = 200 => Field(e, "status") = "200 OK"
            /\ st.code = 404 => Field(e, "status") = "404 Not Found"
            /\ st.code = 500 => Field(e, "status") = "500 Internal Server Error"
            /\ st.code \in {200, 404, 500}
            /\ matched[r] = << IndexRoute >> => Field(e, "route") = "GET /"

C5_Witness ==
    /\ \E i \in At("response") : HasField(Log[i], "route") /\ Field(Log[i], "status") = "200 OK"
    /\ \E i \in At("response") : ~HasField(Log[i], "route")

\* C6: in the log, every config event precedes every route and listening
\* event, and all of those precede every request and response event.
C6_Ordering ==
    LET stage(e) == IF e.msg = "config" THEN 1
                    ELSE IF e.msg \in {"route", "listening"} THEN 2
                    ELSE IF e.msg \in {"request", "response"} THEN 3
                    ELSE 0
    IN  \A i, j \in 1..Len(Log) :
            i < j /\ stage(Log[i]) # 0 /\ stage(Log[j]) # 0 => stage(Log[i]) <= stage(Log[j])

C6_Witness ==
    /\ At("config") # {} /\ At("route") # {} /\ At("listening") # {}
    /\ At("request") # {} /\ At("response") # {}

\* C7: on_launch emits exactly one listening event, after every route event,
\* with address scheme://address:port, https with TLS and http without.
C7_Listening ==
    LET ls == At("listening")
    IN  /\ ~(phase = "launched" /\ Registered) => ls = {}
        /\ phase = "launched" /\ Registered =>
              /\ Cardinality(ls) = 1
              /\ \A i \in ls :
                    /\ Log[i].hook = "on_launch"
                    /\ \A j \in At("route") : j < i
                    /\ Names(Log[i]) = << "address" >>
                    /\ config.address = "0.0.0.0" /\ config.port = 8000 /\ ~config.tls
                          => Field(Log[i], "address") = "http://0.0.0.0:8000"
                    /\ config.address = "example.com" /\ config.port = 443 /\ config.tls
                          => Field(Log[i], "address") = "https://example.com:443"
                    /\ config.address = "localhost" /\ config.port = 8080 /\ ~config.tls
                          => Field(Log[i], "address") = "http://localhost:8080"

C7_Witness ==
    /\ phase = "launched" /\ Registered
    /\ config.tls
    /\ At("route") # {}
    /\ At("listening") # {}

\* C8: an on_attach call returns Ok exactly when it could publish the handle;
\* when it could not, startup is aborted and neither on_launch nor a request
\* hook ever runs; the pipeline is never launched with the fairing attached
\* and no handle published.
C8_AttachFailure ==
    /\ \A k \in 1..Len(attached) : attached[k].result = "Ok" <=> ~attached[k].pre
    /\ (\E k \in 1..Len(attached) : attached[k].result # "Ok") =>
          /\ phase = "aborted"
          /\ \A r \in Requests : pc[r] = "new"
          /\ \A i \in 1..Len(Log) : Log[i].hook = "on_attach"
    /\ Registered => managed # << >>

C8_Witness ==
    /\ phase = "aborted"
    /\ \E k \in 1..Len(attached) : attached[k].pre /\ attached[k].result = "panic"

\* C9: every handle (the fairing's, the published one, the ones handlers are
\* given) points at the one logger; every event emitted through any of them is
\* in that logger's stream exactly once, in emission order.
C9_OneLogger ==
    /\ DOMAIN sink = {RootLogger}
    /\ deref(fairing) = RootLogger
    /\ managed # << >> => deref(managed[1]) = RootLogger
    /\ \A r \in Requests : guard[r].outcome = "Success" => deref(guard[r].handle) = RootLogger
    /\ Len(Log) = emitted
    /\ \A i \in 1..Len(Log) : Log[i].seq = i

C9_Witness ==
    /\ \E i \in 1..Len(Log) : Log[i].hook = "handler"
    /\ \E i \in 1..Len(Log) : Log[i].hook = "on_attach"
    /\ \E i \in 1..Len(Log) : Log[i].hook = "on_response"

\* C10: the managed state is written once, by a successful on_attach, from
\* empty to the fairing's handle; no step changes the configuration, the
\* route table or a request, and the response hook leaves the response and
\* the request's route as they were.
C10_Frame ==
    [][ /\ config' = config
        /\ routes' = routes
        /\ reqs' = reqs
        /\ managed' # managed =>
              /\ managed = << >>
              /\ managed' = << fairing >>
              /\ Len(attached') = Len(attached) + 1
        /\ Len(attached') = Len(attached) + 1 /\ managed = << >> => managed' # << >>
        /\ \A r \in Requests :
              pc[r] = "routed" /\ pc'[r] = "done" => resp'[r] = resp[r] /\ matched'[r] = matched[r]
      ]_vars

C10_Witness ==
    /\ managed # << >>
    /\ phase = "launched"
    /\ \E r \in Requests : pc[r] = "done" /\ reqs[r].uri # "/"

====
